---- MODULE Spec2Model ----
(***************************************************************************)
(* Model of the BitBuffet TypeScript client (apps/node/src/bitbuffet.ts):  *)
(* construction of the client and the extract() request/response wrapper.  *)
(*                                                                         *)
(* JavaScript values are tagged records, so that undefined, null, numbers, *)
(* strings, schemas and plain objects stay distinct.  One extract() call   *)
(* is two steps: Extract (everything up to the awaited POST) and Respond   *)
(* (the transport's answer, the interpretation of the envelope and the     *)
(* catch block).                                                           *)
(***************************************************************************)
EXTENDS Integers, Sequences, FiniteSets, TLC

VARIABLES
    client,           \* the constructed BitBuffet instance, or NoClient
    creates,          \* number of axios.create calls made by the constructor
    ctorError,        \* error thrown by the last constructor call, or Undef
    apiKey,           \* argument of the last constructor call, or NoKey
    pc,               \* "idle", "awaiting" (POST in flight) or "done"
    url,              \* extract argument 1
    schemaOrConfig,   \* extract argument 2
    configOrTimeout,  \* extract argument 3
    timeout,          \* extract argument 4 as passed (Undef when omitted)
    format,           \* local: resolved mode
    schema,           \* local: recorded schema
    config,           \* local: resolved configuration
    actualTimeout,    \* local: resolved timeout
    path,             \* path of the POST of this call, or Undef
    payload,          \* body of the POST of this call, or NoPayload
    postOpts,         \* options object of the POST of this call, or NoOpts
    posts,            \* number of POSTs issued by this call
    response,         \* what the transport answered, or NoResponse
    outcome,          \* how the call ended: none / returned / threw
    calls,            \* the calls of several callers on the one client
    objects,          \* the caller's argument objects as the call left them
    scraperClient,    \* the ScraperClient instance, or NoScraperClient
    scrape            \* the scrape call under way (either scrape entry point)

vars ==
    << client, creates, ctorError, apiKey, pc, url, schemaOrConfig, configOrTimeout,
       timeout, format, schema, config, actualTimeout, path, payload,
       postOpts, posts, response, outcome, calls, objects, scraperClient,
       scrape >>

scraperVars == << scraperClient, scrape >>

callVars ==
    << pc, url, schemaOrConfig, configOrTimeout, timeout, format, schema,
       config, actualTimeout, path, payload, postOpts, posts, response,
       outcome >>

(***************************************************************************)
(* Bounds and program constants                                            *)
(***************************************************************************)
MaxTimeout == 1

\* how long the base URLs given to ScraperClient are
MaxUrlLen == 3

\* how many calls are made on the one client
NumCallers == 3

BASE_API_URL == "https://api.bitbuffet.dev"

BASE_API_VERSION == "v1"

DEFAULT_TIMEOUT == 60000

(***************************************************************************)
(* JavaScript values                                                       *)
(***************************************************************************)
Undef == [t |-> "undefined"]

Null == [t |-> "null"]

Num(n) == [t |-> "number", n |-> n]

Str(s) == [t |-> "string", s |-> s]

Bool(b) == [t |-> "boolean", b |-> b]

\* A Zod object schema: shape is the set of its (required, string) fields.
ZodSchema(shape) == [t |-> "schema", shape |-> shape]

\* typeof v
TypeOf(v) ==
    CASE v.t = "undefined" -> "undefined"
      [] v.t = "number"    -> "number"
      [] v.t = "string"    -> "string"
      [] v.t = "boolean"   -> "boolean"
      [] OTHER             -> "object"

\* ToBoolean(v)
Truthy(v) ==
    CASE v.t = "undefined" -> FALSE
      [] v.t = "null"      -> FALSE
      [] v.t = "number"    -> v.n # 0
      [] v.t = "string"    -> v.s # ""
      [] v.t = "boolean"   -> v.b
      [] OTHER             -> TRUE

\* 'format' in v, for an object v.  A Zod schema carries no member of that
\* name, so the test tells a configuration with the indicator from a schema.
HasFormatKey(v) == v.t = "object" /\ v.hasFormat

\* v.k for an object v: undefined when the object does not carry the key
Get(v, k) == IF v.t = "object" THEN v[k] ELSE Undef

\* {} : the empty configuration
EmptyConfig ==
    [t |-> "object", hasFormat |-> FALSE, format |-> Undef,
     temperature |-> Undef, top_p |-> Undef, prompt |-> Undef,
     reasoning_effort |-> Undef]

(***************************************************************************)
(* Errors.  A message is the sequence of the parts it is concatenated of.  *)
(***************************************************************************)
Error(msg) == [t |-> "Error", message |-> msg]

TypeError(msg) == [t |-> "TypeError", message |-> msg]

AxiosError(msg) == [t |-> "AxiosError", message |-> msg]

ConflictMessage ==
    << "Cannot specify both 'temperature' and 'top_p' parameters. Please use only one." >>

SchemaRequiredMessage == << "json_schema is required when format is 'json'" >>

SchemaForbiddenMessage ==
    << "json_schema should not be defined when format is 'markdown'" >>

ApiKeyMessage ==
    << "API key is required. Please provide a valid API key when initializing the BitBuffet." >>

(***************************************************************************)
(* constructor(apiKey).  An API key is a sequence of characters.           *)
(***************************************************************************)
Chars(cs) == [t |-> "chars", c |-> cs]

\* the white space String.prototype.trim removes (blank, tab, line feed here)
WhiteSpace == { " ", "\t", "\n" }

IsSpace(ch) == ch \in WhiteSpace

RECURSIVE TrimStart(_)
TrimStart(cs) ==
    IF cs # << >> /\ IsSpace(Head(cs)) THEN TrimStart(Tail(cs)) ELSE cs

RECURSIVE TrimEnd(_)
TrimEnd(cs) ==
    IF cs # << >> /\ IsSpace(cs[Len(cs)])
    THEN TrimEnd(SubSeq(cs, 1, Len(cs) - 1))
    ELSE cs

\* String.prototype.trim
Trim(cs) == TrimEnd(TrimStart(cs))

\* mutant: the key is not trimmed before the test
ApiKeyRejected_NoTrim(key) ==
    \/ key.t = "undefined"
    \/ key.t = "chars" /\ key.c = << >>

\* !apiKey || !apiKey.trim()
ApiKeyRejected(key) ==
    \/ key.t = "undefined"
    \/ key.t = "chars" /\ key.c = << >>
    \/ key.t = "chars" /\ Trim(key.c) = << >>

NoClient == [t |-> "none"]

NoKey == [t |-> "none"]

\* mutant: the header carries the trimmed key
NewClient_TrimmedKey(key) ==
    [t       |-> "client",
     baseUrl |-> << BASE_API_URL, "/", BASE_API_VERSION >>,
     baseURL |-> << BASE_API_URL, "/", BASE_API_VERSION >>,
     headers |-> [Authorization |-> << "Bearer " >> \o Trim(key.c),
                  ContentType   |-> "application/json"]]

\* the instance the constructor builds: this.baseUrl and the axios.create
\* configuration
NewClient(key) ==
    [t       |-> "client",
     baseUrl |-> << BASE_API_URL, "/", BASE_API_VERSION >>,
     baseURL |-> << BASE_API_URL, "/", BASE_API_VERSION >>,
     headers |-> [Authorization |-> << "Bearer " >> \o key.c,
                  ContentType   |-> "application/json"]]

(***************************************************************************)
(* extract: parsing of the arguments                                       *)
(***************************************************************************)
\* mutant: the default replaces a fourth argument that was passed
DefaultTimeoutParam_Always(a4) == Num(DEFAULT_TIMEOUT)

\* timeout: number = DEFAULT_TIMEOUT
DefaultTimeoutParam(a4) ==
    IF a4.t = "undefined" THEN Num(DEFAULT_TIMEOUT) ELSE a4

NullFormatMessage == << "Cannot read properties of null (reading 'format')" >>

\* The two branches of "Parse arguments based on overload".  thrown is the
\* error raised while parsing (reading .format of null), or Undef.
ParseArguments(a2, a3, a4) ==
    LET t0 == DefaultTimeoutParam(a4) IN
    IF Truthy(a2) /\ TypeOf(a2) = "object" /\ HasFormatKey(a2)
    THEN [format        |-> a2.format,
          schema        |-> Undef,
          config        |-> a2,
          actualTimeout |-> IF TypeOf(a3) = "number" THEN a3 ELSE t0,
          thrown        |-> Undef]
    ELSE IF TypeOf(a3) = "object"
         THEN IF a3.t = "null"
              THEN [format        |-> Str("json"),
                    schema        |-> a2,
                    config        |-> a3,
                    actualTimeout |-> t0,
                    thrown        |-> TypeError(NullFormatMessage)]
              ELSE [format        |-> IF Truthy(Get(a3, "format"))
                                      THEN Get(a3, "format")
                                      ELSE Str("json"),
                    schema        |-> a2,
                    config        |-> a3,
                    actualTimeout |-> t0,
                    thrown        |-> Undef]
         ELSE [format        |-> Str("json"),
               schema        |-> a2,
               config        |-> EmptyConfig,
               actualTimeout |-> IF TypeOf(a3) = "number" THEN a3 ELSE t0,
               thrown        |-> Undef]

(***************************************************************************)
(* extract: the three validation rules, in the order of the code           *)
(***************************************************************************)
\* config.temperature !== undefined && config.top_p !== undefined
ParameterConflict(cfg) ==
    Get(cfg, "temperature").t # "undefined" /\ Get(cfg, "top_p").t # "undefined"

\* mutant: schema === undefined instead of !schema
SchemaMissing_OnlyUndefined(fmt, sch) ==
    fmt = Str("json") /\ sch.t = "undefined"

\* format === 'json' && !schema
SchemaMissing(fmt, sch) == fmt = Str("json") /\ ~Truthy(sch)

\* mutant: the schema is ignored for markdown, as the comment above the rule
\* announces
SchemaForbidden_Ignored(fmt, sch) == FALSE

\* format === 'markdown' && schema
SchemaForbidden(fmt, sch) == fmt = Str("markdown") /\ Truthy(sch)

\* mutant: the mode rules are checked before the conflict rule
ValidateArguments_ModeFirst(cfg, fmt, sch) ==
    IF SchemaMissing(fmt, sch) THEN Error(SchemaRequiredMessage)
    ELSE IF SchemaForbidden(fmt, sch) THEN Error(SchemaForbiddenMessage)
    ELSE IF ParameterConflict(cfg) THEN Error(ConflictMessage)
    ELSE Undef

\* the error the validation throws, or Undef when every rule passes
ValidateArguments(cfg, fmt, sch) ==
    IF ParameterConflict(cfg) THEN Error(ConflictMessage)
    ELSE IF SchemaMissing(fmt, sch) THEN Error(SchemaRequiredMessage)
    ELSE IF SchemaForbidden(fmt, sch) THEN Error(SchemaForbiddenMessage)
    ELSE Undef

(***************************************************************************)
(* extract: the payload                                                    *)
(***************************************************************************)
\* zodToJsonSchema(schema) for a Zod schema
JsonSchemaOf(sch) ==
    [t |-> "jsonschema", type |-> "object", properties |-> sch.shape,
     required |-> sch.shape, additionalProperties |-> FALSE]

NotASchemaMessage == << "Cannot read properties of undefined (reading 'typeName')" >>

\* What zodToJsonSchema can do with its argument.  For a value that is not
\* a Zod schema (a plain object taken for one) the library is outside its
\* contract: it throws, or it returns the schema that accepts anything.
SerializeOutcomes(sch) ==
    IF sch.t = "schema"
    THEN { [ok |-> TRUE, jsonSchema |-> JsonSchemaOf(sch), thrown |-> Undef] }
    ELSE { [ok |-> FALSE, jsonSchema |-> Undef,
            thrown |-> TypeError(NotASchemaMessage)],
           [ok |-> TRUE, jsonSchema |-> [t |-> "jsonschema", type |-> "any"],
            thrown |-> Undef] }

\* format === 'json' && schema
NeedsJsonSchema(fmt, sch) == fmt = Str("json") /\ Truthy(sch)

OptionalKeys == << "reasoning_effort", "prompt", "top_p", "temperature" >>

\* mutant: the field is copied whether or not the caller supplied it
OptionalField_Always(cfg, k) == k :> Get(cfg, k)

\* if (config.k !== undefined) payload.k = config.k
OptionalField(cfg, k) ==
    IF Get(cfg, k).t # "undefined" THEN k :> Get(cfg, k) ELSE << >>

\* const payload: any = { url, format }
NewPayload(u, fmt) == ("url" :> u) @@ ("format" :> fmt)

\* the object posted: { url, format }, then json_schema, then the options
BuildPayload(u, fmt, sch, cfg, jsonSchema) ==
    LET base == NewPayload(u, fmt)
        withSchema == IF NeedsJsonSchema(fmt, sch)
                      THEN base @@ ("json_schema" :> jsonSchema)
                      ELSE base
    IN withSchema
       @@ OptionalField(cfg, "reasoning_effort")
       @@ OptionalField(cfg, "prompt")
       @@ OptionalField(cfg, "top_p")
       @@ OptionalField(cfg, "temperature")

NoPayload == << >>

NoOpts == << >>

\* { timeout: actualTimeout }
PostOptions(t) == "timeout" :> t

(***************************************************************************)
(* extract: the objects it reads and the object it writes                  *)
(***************************************************************************)
\* the object the local config refers to: the caller's second argument, the
\* caller's third argument, or the {} the call made for itself
ConfigAlias(a2, a3) ==
    IF Truthy(a2) /\ TypeOf(a2) = "object" /\ HasFormatKey(a2)
    THEN "schemaOrConfig"
    ELSE IF TypeOf(a3) = "object" THEN "configOrTimeout"
    ELSE "own"

\* mutant: the payload is built on the configuration object
\* (Object.assign(config, { url, format })), not on an object of its own
PayloadObject_OnConfig(alias) == alias

\* the object the assignments payload.k = ... go to: the one the literal
\* { url, format } created
PayloadObject(alias) == "payload"

\* object v after the fields of body were assigned to it
Assigned(v, body) == IF body = << >> THEN v ELSE body @@ v

\* no call is under way: there are no argument objects
NoObjects == [schemaOrConfig |-> Undef, configOrTimeout |-> Undef,
              payload |-> "none"]

\* the caller's two argument objects after the call has assigned the fields
\* of body to the object target, and the object that was posted
ObjectsAfter(a2, a3, target, body) ==
    [schemaOrConfig  |-> IF target = "schemaOrConfig"
                         THEN Assigned(a2, body) ELSE a2,
     configOrTimeout |-> IF target = "configOrTimeout" /\ a3.t = "object"
                         THEN Assigned(a3, body) ELSE a3,
     payload         |-> IF body = << >> THEN "none" ELSE target]

(***************************************************************************)
(* The schema-validation capability: schema.parse(data)                    *)
(***************************************************************************)
\* a JSON object received from the server: the set of the keys it carries
Obj(keys) == [t |-> "record", keys |-> keys]

RECURSIVE SetToSeq(_)
SetToSeq(S) ==
    IF S = {} THEN << >>
    ELSE LET x == CHOOSE y \in S : TRUE IN << x >> \o SetToSeq(S \ {x})

\* ZodError: its message is the serialised list of all its issues
ZodError(issues) ==
    [t |-> "ZodError", issues |-> issues, message |-> SetToSeq(issues)]

\* the issues Zod reports for data against an object schema: one for a
\* non-object, else one per missing required field
ZodIssues(sch, data) ==
    IF data.t # "record" THEN { "expected object" }
    ELSE sch.shape \ data.keys

\* schema.parse(data): the thrown ZodError, or the value with unknown keys
\* stripped
ZodParse(sch, data) ==
    IF ZodIssues(sch, data) # {}
    THEN [ok |-> FALSE, thrown |-> ZodError(ZodIssues(sch, data)), value |-> Undef]
    ELSE [ok |-> TRUE, thrown |-> Undef,
          value |-> Obj(data.keys \cap sch.shape)]

ParseOfUndefinedMessage ==
    << "Cannot read properties of undefined (reading 'parse')" >>

ParseNotAFunctionMessage == << "schema.parse is not a function" >>

\* schema!.parse(result.data) for whatever was recorded as the schema
SchemaParse(sch, data) ==
    CASE sch.t = "schema" -> ZodParse(sch, data)
      [] sch.t \in {"undefined", "null"} ->
            [ok |-> FALSE, thrown |-> TypeError(ParseOfUndefinedMessage),
             value |-> Undef]
      [] OTHER ->
            [ok |-> FALSE, thrown |-> TypeError(ParseNotAFunctionMessage),
             value |-> Undef]

(***************************************************************************)
(* extract: interpretation of the response, and the catch block            *)
(***************************************************************************)
Returned(v) == [kind |-> "returned", value |-> v]

Threw(e) == [kind |-> "threw", error |-> e]

NoOutcome == [kind |-> "none"]

NoResponse == [t |-> "none"]

\* a 2xx reply carrying body
Reply(body) == [t |-> "reply", data |-> body]

\* a transport-level failure (connection error, non-2xx, timeout)
Failure(cause) == [t |-> "failure", cause |-> cause]

Envelope(success, error, data) ==
    [t |-> "envelope", success |-> success, error |-> error, data |-> data]

\* result.k for the body of the reply
Field(result, k) == IF result.t = "envelope" THEN result[k] ELSE Undef

SuccessOfNullMessage ==
    << "Cannot read properties of null (reading 'success')" >>

\* `API returned error: ${result.error || 'Unknown error'}`
ApiErrorMessage(result) ==
    << "API returned error: ",
       IF Truthy(Field(result, "error"))
       THEN Field(result, "error").s
       ELSE "Unknown error" >>

\* mutant: the markdown data is returned before success is looked at
InterpretResult_MarkdownFirst(fmt, sch, result) ==
    IF result.t \in {"null", "undefined"}
    THEN Threw(TypeError(SuccessOfNullMessage))
    ELSE IF fmt = Str("markdown")
    THEN Returned(Field(result, "data"))
    ELSE IF ~Truthy(Field(result, "success"))
    THEN Threw(Error(ApiErrorMessage(result)))
    ELSE LET p == SchemaParse(sch, Field(result, "data"))
         IN IF p.ok THEN Returned(p.value) ELSE Threw(p.thrown)

\* mutant: the data is returned as received, in json mode too
InterpretResult_NoParse(fmt, sch, result) ==
    IF result.t \in {"null", "undefined"}
    THEN Threw(TypeError(SuccessOfNullMessage))
    ELSE IF ~Truthy(Field(result, "success"))
    THEN Threw(Error(ApiErrorMessage(result)))
    ELSE Returned(Field(result, "data"))

\* mutant: the data is validated in markdown mode too
InterpretResult_AlwaysParse(fmt, sch, result) ==
    IF result.t \in {"null", "undefined"}
    THEN Threw(TypeError(SuccessOfNullMessage))
    ELSE IF ~Truthy(Field(result, "success"))
    THEN Threw(Error(ApiErrorMessage(result)))
    ELSE LET p == SchemaParse(sch, Field(result, "data"))
         IN IF p.ok THEN Returned(p.value) ELSE Threw(p.thrown)

\* lines after the await, inside the try block
InterpretResult(fmt, sch, result) ==
    IF result.t \in {"null", "undefined"}
    THEN Threw(TypeError(SuccessOfNullMessage))
    ELSE IF ~Truthy(Field(result, "success"))
    THEN Threw(Error(ApiErrorMessage(result)))
    ELSE IF fmt = Str("markdown")
    THEN Returned(Field(result, "data"))
    ELSE LET p == SchemaParse(sch, Field(result, "data"))
         IN IF p.ok THEN Returned(p.value) ELSE Threw(p.thrown)

\* mutant: the transport error is rethrown as it came
CatchBlock_NoAxiosWrap(e) ==
    IF e.t = "ZodError"
    THEN Error(<< "Validation failed: " >> \o e.message)
    ELSE e

\* mutant: only the first issue of the validator is reported
CatchBlock_FirstIssue(e) ==
    IF e.t = "ZodError"
    THEN Error(<< "Validation failed: ", Head(e.message) >>)
    ELSE IF e.t = "AxiosError"
    THEN Error(<< "API request failed: " >> \o e.message)
    ELSE e

\* catch (error) { ... }
CatchBlock(e) ==
    IF e.t = "ZodError"
    THEN Error(<< "Validation failed: " >> \o e.message)
    ELSE IF e.t = "AxiosError"
    THEN Error(<< "API request failed: " >> \o e.message)
    ELSE e

\* the outcome of the call once the transport has answered
Settle(fmt, sch, r) ==
    LET raw == IF r.t = "failure" THEN Threw(r.cause)
               ELSE InterpretResult(fmt, sch, r.data)
    IN IF raw.kind = "threw" THEN Threw(CatchBlock(raw.error)) ELSE raw

(***************************************************************************)
(* Inputs                                                                  *)
(***************************************************************************)
ApiKeys ==
    { Undef, Chars(<< >>), Chars(<< " " >>), Chars(<< " ", "\t" >>),
      Chars(<< "\n" >>), Chars(<< "k" >>), Chars(<< " ", "k" >>) }

Urls == { Str("https://example.com") }

ArticleSchema == ZodSchema({"title", "author"})

Schemas == { ArticleSchema }

\* values of the mode indicator: absent is hasFormat = FALSE
Formats == { Undef, Str("json"), Str("markdown"), Str("xml") }

Configs ==
    { c \in [t : {"object"}, hasFormat : BOOLEAN, format : Formats,
             temperature : {Undef, Num(1)}, top_p : {Undef, Num(1)},
             prompt : {Undef, Null, Str("p")},
             reasoning_effort : {Undef, Str("high")}] :
        ~c.hasFormat => c.format = Undef }

TimeoutArgs == { Num(n) : n \in -1 .. MaxTimeout }

\* a second argument without the mode indicator is taken for a schema, and
\* only its being an object is read: two such objects stand for all of them
SecondArgs ==
    { Undef, Null } \cup Schemas
    \cup { c \in Configs : c.hasFormat }
    \cup { EmptyConfig,
           [EmptyConfig EXCEPT !.temperature = Num(1), !.top_p = Num(1)] }

\* a third argument beside a configuration in second place is read for its
\* type only: one object stands for all of them
ThirdArgs(a2) ==
    { Undef, Null } \cup TimeoutArgs
    \cup (IF HasFormatKey(a2)
          THEN { [EmptyConfig EXCEPT !.temperature = Num(1), !.top_p = Num(1)] }
          ELSE Configs)

FourthArgs == { Undef } \cup TimeoutArgs

Causes == { AxiosError(<< "Connection failed" >>),
            AxiosError(<< "timeout exceeded" >>) }

Datas == { Undef, Str("# Article Title"), Obj({"title", "author", "extra"}),
           Obj({}) }

Bodies ==
    { Null, Str("<html>") }
    \cup { Envelope(s, e, d) : s \in {Bool(TRUE), Bool(FALSE), Undef, Null,
                                      Str("false")},
                               e \in {Undef, Str(""),
                                      Str("Failed to extract the provided URL")},
                               d \in Datas }

Responses == { Failure(c) : c \in Causes } \cup { Reply(b) : b \in Bodies }

(***************************************************************************)
(* Several calls on one client                                             *)
(***************************************************************************)
Callers == 1 .. NumCallers

\* a call that has not been made yet
IdleCall ==
    [pc |-> "idle", url |-> Undef, schemaOrConfig |-> Undef,
     configOrTimeout |-> Undef, timeout |-> Undef, format |-> Undef,
     schema |-> Undef, config |-> Undef, actualTimeout |-> Undef,
     path |-> Undef, payload |-> NoPayload, postOpts |-> NoOpts, posts |-> 0,
     response |-> NoResponse, outcome |-> NoOutcome]

\* mutant: the resolved timeout is kept on the client, and a call that passes
\* none takes the one the latest other call left there
Locals_Shared(cs, i, a2, a3, a4) ==
    LET p == ParseArguments(a2, a3, a4)
        others == { j \in DOMAIN cs \ {i} : cs[j].pc # "idle" }
        latest == CHOOSE j \in others : \A k \in others : j >= k
    IN IF others # {} /\ a4.t = "undefined" /\ TypeOf(a3) # "number"
       THEN [p EXCEPT !.actualTimeout = cs[latest].actualTimeout]
       ELSE p

\* let format, schema, config, actualTimeout: the locals of call i are made by
\* the call and filled from its own arguments; what the other calls cs hold
\* is not read
Locals(cs, i, a2, a3, a4) == ParseArguments(a2, a3, a4)

\* call extract(u, a2, a3, a4) as it stands at its await, or as it ended
\* before it: p are its locals, ser is what the serialisation did
BegunCall(u, a2, a3, a4, p, ser) ==
    LET v == ValidateArguments(p.config, p.format, p.schema)
        base(now, where, body, opts, n, out) ==
            [pc |-> now, url |-> u, schemaOrConfig |-> a2,
             configOrTimeout |-> a3, timeout |-> a4, format |-> p.format,
             schema |-> p.schema, config |-> p.config,
             actualTimeout |-> p.actualTimeout, path |-> where,
             payload |-> body, postOpts |-> opts, posts |-> n,
             response |-> NoResponse, outcome |-> out]
        failed(e) ==
            base("done", Undef, NoPayload, NoOpts, 0, Threw(CatchBlock(e)))
        posted(jsonSchema) ==
            base("awaiting", "/extract",
                 BuildPayload(u, p.format, p.schema, p.config, jsonSchema),
                 PostOptions(p.actualTimeout), 1, NoOutcome)
    IN IF p.thrown # Undef THEN failed(p.thrown)
       ELSE IF v # Undef THEN failed(v)
       ELSE IF NeedsJsonSchema(p.format, p.schema)
       THEN IF ser.ok THEN posted(ser.jsonSchema) ELSE failed(ser.thrown)
       ELSE posted(Undef)

\* call c once the transport has answered r
AnsweredCall(c, r) ==
    [c EXCEPT !.pc = "done", !.response = r,
              !.outcome = Settle(c.format, c.schema, r)]

\* the argument lists the callers use: a schema alone, a schema with options
\* and a timeout, markdown with a timeout in third place, and a schema with
\* markdown, which is rejected
CallerArgs ==
    { [a2 |-> ArticleSchema, a3 |-> Undef, a4 |-> Undef],
      [a2 |-> ArticleSchema, a3 |-> [EmptyConfig EXCEPT !.prompt = Str("p")],
       a4 |-> Num(1)],
      [a2 |-> [EmptyConfig EXCEPT !.hasFormat = TRUE,
                                  !.format = Str("markdown")],
       a3 |-> Num(0), a4 |-> Undef],
      [a2 |-> ArticleSchema,
       a3 |-> [EmptyConfig EXCEPT !.hasFormat = TRUE,
                                  !.format = Str("markdown")],
       a4 |-> Undef] }

\* what the transport answers the callers
CallerResponses ==
    { Failure(AxiosError(<< "Connection failed" >>)),
      Reply(Envelope(Bool(TRUE), Undef, Obj({"title", "author", "extra"}))),
      Reply(Envelope(Bool(FALSE), Str("Failed to extract the provided URL"),
                     Undef)) }

(***************************************************************************)
(* scraper.ts: ScraperClient, and the scrape method of BitBuffet           *)
(***************************************************************************)
\* `${v}` : the text of an environment variable, "undefined" when it is unset
Template(v) == IF v.t = "undefined" THEN << "undefined" >> ELSE v.c

\* baseUrl: string = `${process.env.BASE_API_URL}:${process.env.BASE_API_PORT}`
BaseUrlParam(b, envUrl, envPort) ==
    IF b.t = "undefined"
    THEN Chars(Template(envUrl) \o << ":" >> \o Template(envPort))
    ELSE b

\* mutant: every trailing slash is removed, as /\/+$/ would
RECURSIVE StripTrailingSlash_All(_)
StripTrailingSlash_All(cs) ==
    IF cs # << >> /\ cs[Len(cs)] = "/"
    THEN StripTrailingSlash_All(SubSeq(cs, 1, Len(cs) - 1))
    ELSE cs

\* baseUrl.replace(/\/$/, '') : one slash at the very end is removed
StripTrailingSlash(cs) ==
    IF cs # << >> /\ cs[Len(cs)] = "/"
    THEN SubSeq(cs, 1, Len(cs) - 1)
    ELSE cs

NoScraperClient == [t |-> "none"]

\* the instance the constructor builds from its (defaulted) parameter:
\* this.baseUrl and the axios.create configuration
NewScraperClient(baseUrl) ==
    [t       |-> "client",
     given   |-> baseUrl.c,
     baseUrl |-> StripTrailingSlash(baseUrl.c),
     baseURL |-> StripTrailingSlash(baseUrl.c),
     headers |-> [ContentType |-> "application/json"]]

\* Number(undefined), when the environment sets no DEFAULT_TIMEOUT
NaN == [t |-> "NaN"]

\* timeout: number = Number(process.env.DEFAULT_TIMEOUT)
ScrapeTimeoutParam(t, envTimeout) ==
    IF t.t = "undefined" THEN envTimeout ELSE t

\* if (v !== undefined) payload.k = v
ScrapeField(k, v) == IF v.t # "undefined" THEN k :> v ELSE << >>

\* the payload of ScraperClient.scrape: { url, schema }, then the options
ScraperPayload(u, jsonSchema, re, pr, tp, te) ==
    ("url" :> u) @@ ("schema" :> jsonSchema)
    @@ ScrapeField("reasoning_effort", re)
    @@ ScrapeField("prompt", pr)
    @@ ScrapeField("top_p", tp)
    @@ ScrapeField("temperature", te)

\* config: ScrapeConfig = {}
ScrapeConfigParam(cfg) == IF cfg.t = "undefined" THEN EmptyConfig ELSE cfg

NullTemperatureMessage ==
    << "Cannot read properties of null (reading 'temperature')" >>

\* the payload of BitBuffet.scrape: { url, json_schema }, then the options
BitBuffetScrapePayload(u, jsonSchema, cfg) ==
    ("url" :> u) @@ ("json_schema" :> jsonSchema)
    @@ ScrapeField("reasoning_effort", Get(cfg, "reasoning_effort"))
    @@ ScrapeField("prompt", Get(cfg, "prompt"))
    @@ ScrapeField("top_p", Get(cfg, "top_p"))
    @@ ScrapeField("temperature", Get(cfg, "temperature"))

\* no scrape call is under way
IdleScrape ==
    [pc |-> "idle", entry |-> "none", url |-> Undef, schema |-> Undef,
     timeout |-> Undef, path |-> Undef, payload |-> NoPayload,
     postOpts |-> NoOpts, posts |-> 0, response |-> NoResponse,
     outcome |-> NoOutcome]

\* a scrape call that ended before its POST, with error e
FailedScrape(entry, u, sch, t, e) ==
    [IdleScrape EXCEPT !.pc = "done", !.entry = entry, !.url = u,
                       !.schema = sch, !.timeout = t,
                       !.outcome = Threw(CatchBlock(e))]

\* a scrape call at its await: this.client.post(where, body, { timeout })
PostedScrape(entry, u, sch, t, where, body) ==
    [IdleScrape EXCEPT !.pc = "awaiting", !.entry = entry, !.url = u,
                       !.schema = sch, !.timeout = t, !.path = where,
                       !.payload = body, !.postOpts = PostOptions(t),
                       !.posts = 1]

\* the lines of scrape after the await, inside the try block
ScrapeResult(sch, result) ==
    IF result.t \in {"null", "undefined"}
    THEN Threw(TypeError(SuccessOfNullMessage))
    ELSE IF ~Truthy(Field(result, "success"))
    THEN Threw(Error(ApiErrorMessage(result)))
    ELSE LET p == SchemaParse(sch, Field(result, "data"))
         IN IF p.ok THEN Returned(p.value) ELSE Threw(p.thrown)

\* the outcome of a scrape call once the transport has answered
ScrapeSettle(sch, r) ==
    LET raw == IF r.t = "failure" THEN Threw(r.cause)
               ELSE ScrapeResult(sch, r.data)
    IN IF raw.kind = "threw" THEN Threw(CatchBlock(raw.error)) ELSE raw

RECURSIVE SeqsUpTo(_, _)
\* the sequences over S of length at most n
SeqsUpTo(S, n) ==
    IF n = 0 THEN { << >> }
    ELSE LET shorter == SeqsUpTo(S, n - 1)
         IN shorter \cup { Append(s, x) : s \in shorter, x \in S }

\* base URLs given to ScraperClient: texts over a letter and the slash
BaseUrls == { Chars(cs) : cs \in SeqsUpTo({ "a", "/" }, MaxUrlLen) }

\* what the environment holds for BASE_API_URL and BASE_API_PORT
EnvUrls == { Undef, Chars(<< "a" >>), Chars(<< "a", "/" >>) }

EnvPorts == { Undef, Chars(<< "8" >>) }

\* what Number(process.env.DEFAULT_TIMEOUT) is
EnvTimeouts == { NaN, Num(MaxTimeout) }

\* the sampling options passed to the scrape entry points
SamplingArgs == { Undef, Num(1) }

ScrapeConfigs ==
    { Undef, Null }
    \cup { [EmptyConfig EXCEPT !.temperature = te, !.top_p = tp,
                               !.prompt = pr, !.reasoning_effort = re] :
             te \in SamplingArgs, tp \in SamplingArgs,
             pr \in { Undef, Str("p") }, re \in { Undef, Str("high") } }

\* the argument lists of extract used beside the scrape entry points
EntryArgs ==
    CallerArgs
    \cup { [a2 |-> ArticleSchema,
            a3 |-> [EmptyConfig EXCEPT !.temperature = te, !.top_p = tp],
            a4 |-> Undef] : te \in SamplingArgs, tp \in SamplingArgs }

(***************************************************************************)
(* The state machine                                                       *)
(***************************************************************************)
Init ==
    /\ client = NoClient
    /\ creates = 0
    /\ ctorError = Undef
    /\ apiKey = NoKey
    /\ pc = "idle"
    /\ url = Undef
    /\ schemaOrConfig = Undef
    /\ configOrTimeout = Undef
    /\ timeout = Undef
    /\ format = Undef
    /\ schema = Undef
    /\ config = Undef
    /\ actualTimeout = Undef
    /\ path = Undef
    /\ payload = NoPayload
    /\ postOpts = NoOpts
    /\ posts = 0
    /\ response = NoResponse
    /\ outcome = NoOutcome
    /\ calls = [i \in Callers |-> IdleCall]
    /\ objects = NoObjects
    /\ scraperClient = NoScraperClient
    /\ scrape = IdleScrape

\* new BitBuffet(apiKey)
Construct(key) ==
    /\ client = NoClient
    /\ apiKey' = key
    /\ IF ApiKeyRejected(key)
       THEN /\ ctorError' = Error(ApiKeyMessage)
            /\ UNCHANGED << client, creates >>
       ELSE /\ client' = NewClient(key)
            /\ creates' = creates + 1
            /\ ctorError' = Undef
    /\ UNCHANGED callVars
    /\ UNCHANGED << calls, objects >>
    /\ UNCHANGED scraperVars

\* the call ends before any POST, with error e
FailBeforePost(e) ==
    /\ pc' = "done"
    /\ path' = Undef
    /\ payload' = NoPayload
    /\ postOpts' = NoOpts
    /\ posts' = 0
    /\ outcome' = Threw(CatchBlock(e))

\* this.client.post('/extract', payload, { timeout: actualTimeout })
Post(body, opts) ==
    /\ pc' = "awaiting"
    /\ path' = "/extract"
    /\ payload' = body
    /\ postOpts' = opts
    /\ posts' = 1
    /\ outcome' = NoOutcome

\* every assignment of the call up to the await, on the object it goes to
Written(a2, a3, body) ==
    objects' = ObjectsAfter(a2, a3, PayloadObject(ConfigAlias(a2, a3)), body)

\* client.extract(u, a2, a3, a4), up to the await
Extract(u, a2, a3, a4) ==
    /\ client # NoClient
    /\ pc = "idle"
    /\ url' = u
    /\ schemaOrConfig' = a2
    /\ configOrTimeout' = a3
    /\ timeout' = a4
    /\ response' = NoResponse
    /\ LET p == ParseArguments(a2, a3, a4)
           v == ValidateArguments(p.config, p.format, p.schema)
       IN /\ format' = p.format
          /\ schema' = p.schema
          /\ config' = p.config
          /\ actualTimeout' = p.actualTimeout
          /\ IF p.thrown # Undef
             THEN FailBeforePost(p.thrown) /\ Written(a2, a3, NoPayload)
             ELSE IF v # Undef
             THEN FailBeforePost(v) /\ Written(a2, a3, NoPayload)
             ELSE IF NeedsJsonSchema(p.format, p.schema)
             THEN \E ser \in SerializeOutcomes(p.schema) :
                    IF ser.ok
                    THEN LET body == BuildPayload(u, p.format, p.schema,
                                                  p.config, ser.jsonSchema)
                         IN /\ Post(body, PostOptions(p.actualTimeout))
                            /\ Written(a2, a3, body)
                    ELSE /\ FailBeforePost(ser.thrown)
                         /\ Written(a2, a3, NewPayload(u, p.format))
             ELSE LET body == BuildPayload(u, p.format, p.schema, p.config,
                                           Undef)
                  IN /\ Post(body, PostOptions(p.actualTimeout))
                     /\ Written(a2, a3, body)
    /\ UNCHANGED << client, creates, ctorError, apiKey, calls >>
    /\ UNCHANGED scraperVars

\* the transport answers r: the rest of the try block and the catch block
Respond(r) ==
    /\ pc = "awaiting"
    /\ pc' = "done"
    /\ response' = r
    /\ outcome' = Settle(format, schema, r)
    /\ UNCHANGED << client, creates, ctorError, apiKey, url, schemaOrConfig,
                    configOrTimeout, timeout, format, schema, config,
                    actualTimeout, path, payload, postOpts, posts, calls,
                    objects >>
    /\ UNCHANGED scraperVars

\* the promise has settled and the caller has taken the outcome: the locals of
\* the call are gone, the client is ready for the next call
Settled ==
    /\ pc = "done"
    /\ pc' = "idle"
    /\ url' = Undef
    /\ schemaOrConfig' = Undef
    /\ configOrTimeout' = Undef
    /\ timeout' = Undef
    /\ format' = Undef
    /\ schema' = Undef
    /\ config' = Undef
    /\ actualTimeout' = Undef
    /\ path' = Undef
    /\ payload' = NoPayload
    /\ postOpts' = NoOpts
    /\ posts' = 0
    /\ response' = NoResponse
    /\ outcome' = NoOutcome
    /\ objects' = NoObjects
    /\ UNCHANGED << client, creates, ctorError, apiKey, calls >>
    /\ UNCHANGED scraperVars

Next ==
    \/ \E k \in ApiKeys : Construct(k)
    \/ /\ pc = "idle"
       /\ \E u \in Urls, a2 \in SecondArgs, a4 \in FourthArgs :
            \E a3 \in ThirdArgs(a2) : Extract(u, a2, a3, a4)
    \/ /\ pc = "awaiting"
       /\ \E r \in Responses : Respond(r)
    \/ Settled

Spec == Init /\ [][Next]_vars

\* caller i calls client.extract(u, a2, a3, a4), up to the await
ExtractOf(i, u, a2, a3, a4) ==
    /\ client # NoClient
    /\ calls[i].pc = "idle"
    /\ LET p == Locals(calls, i, a2, a3, a4)
       IN \E ser \in SerializeOutcomes(p.schema) :
            calls' = [calls EXCEPT ![i] = BegunCall(u, a2, a3, a4, p, ser)]
    /\ UNCHANGED << client, creates, ctorError, apiKey, objects >>
    /\ UNCHANGED callVars
    /\ UNCHANGED scraperVars

\* the transport answers the call of caller i
RespondTo(i, r) ==
    /\ calls[i].pc = "awaiting"
    /\ calls' = [calls EXCEPT ![i] = AnsweredCall(calls[i], r)]
    /\ UNCHANGED << client, creates, ctorError, apiKey, objects >>
    /\ UNCHANGED callVars
    /\ UNCHANGED scraperVars

\* the callers do not wait for one another: calls start and are answered in
\* any order
NextConcurrent ==
    \/ \E k \in ApiKeys : Construct(k)
    \/ \E i \in Callers, u \in Urls, a \in CallerArgs :
         ExtractOf(i, u, a.a2, a.a3, a.a4)
    \/ \E i \in Callers, r \in CallerResponses : RespondTo(i, r)

SpecConcurrent == Init /\ [][NextConcurrent]_vars

\* caller i awaits the calls before its own: await extract(...); extract(...)
ExtractAfter(i, u, a2, a3, a4) ==
    /\ \A j \in Callers : j < i => calls[j].pc = "done"
    /\ ExtractOf(i, u, a2, a3, a4)

NextSequence ==
    \/ \E k \in ApiKeys : Construct(k)
    \/ \E i \in Callers, u \in Urls, a \in CallerArgs :
         ExtractAfter(i, u, a.a2, a.a3, a.a4)
    \/ \E i \in Callers, r \in CallerResponses : RespondTo(i, r)

SpecSequence == Init /\ [][NextSequence]_vars

\* new ScraperClient(b), in an environment holding envUrl and envPort
ConstructScraper(b, envUrl, envPort) ==
    /\ scraperClient = NoScraperClient
    /\ scraperClient' = NewScraperClient(BaseUrlParam(b, envUrl, envPort))
    /\ UNCHANGED << client, creates, ctorError, apiKey, calls, objects,
                    scrape >>
    /\ UNCHANGED callVars

\* scraperClient.scrape(u, sch, t, re, pr, tp, te), up to the await
ScraperScrape(u, sch, t, re, pr, tp, te, envTimeout) ==
    /\ scraperClient # NoScraperClient
    /\ scrape.pc = "idle"
    /\ LET entry == "ScraperClient.scrape"
           tm == ScrapeTimeoutParam(t, envTimeout)
       IN \E ser \in SerializeOutcomes(sch) :
            scrape' =
                IF ser.ok
                THEN PostedScrape(entry, u, sch, tm, "/scrape",
                                  ScraperPayload(u, ser.jsonSchema, re, pr,
                                                 tp, te))
                ELSE FailedScrape(entry, u, sch, tm, ser.thrown)
    /\ UNCHANGED << client, creates, ctorError, apiKey, calls, objects,
                    scraperClient >>
    /\ UNCHANGED callVars

\* bitBuffet.scrape(u, sch, cfg, t), up to the await; the constructor of this
\* BitBuffet tests the key as the other does
BitBuffetScrape(u, sch, cfg, t, envTimeout) ==
    /\ client # NoClient
    /\ scrape.pc = "idle"
    /\ LET entry == "BitBuffet.scrape"
           tm == ScrapeTimeoutParam(t, envTimeout)
           c == ScrapeConfigParam(cfg)
       IN \E ser \in SerializeOutcomes(sch) :
            scrape' =
                IF c.t = "null"
                THEN FailedScrape(entry, u, sch, tm,
                                  TypeError(NullTemperatureMessage))
                ELSE IF ParameterConflict(c)
                THEN FailedScrape(entry, u, sch, tm, Error(ConflictMessage))
                ELSE IF ser.ok
                THEN PostedScrape(entry, u, sch, tm, "/extract",
                                  BitBuffetScrapePayload(u, ser.jsonSchema, c))
                ELSE FailedScrape(entry, u, sch, tm, ser.thrown)
    /\ UNCHANGED << client, creates, ctorError, apiKey, calls, objects,
                    scraperClient >>
    /\ UNCHANGED callVars

\* the transport answers the scrape call
ScrapeRespond(r) ==
    /\ scrape.pc = "awaiting"
    /\ scrape' = [scrape EXCEPT !.pc = "done", !.response = r,
                                !.outcome = ScrapeSettle(scrape.schema, r)]
    /\ UNCHANGED << client, creates, ctorError, apiKey, calls, objects,
                    scraperClient >>
    /\ UNCHANGED callVars

\* the promise of the scrape call has settled
ScrapeSettled ==
    /\ scrape.pc = "done"
    /\ scrape' = IdleScrape
    /\ UNCHANGED << client, creates, ctorError, apiKey, calls, objects,
                    scraperClient >>
    /\ UNCHANGED callVars

\* every entry point of the package, one call at a time
NextEntryPoints ==
    \/ \E k \in ApiKeys : Construct(k)
    \/ \E b \in BaseUrls \cup { Undef }, envUrl \in EnvUrls,
          envPort \in EnvPorts : ConstructScraper(b, envUrl, envPort)
    \/ /\ pc = "idle"
       /\ scrape.pc = "idle"
       /\ \E u \in Urls, a \in EntryArgs : Extract(u, a.a2, a.a3, a.a4)
    \/ /\ pc = "awaiting"
       /\ \E r \in CallerResponses : Respond(r)
    \/ Settled
    \/ /\ pc = "idle"
       /\ scrape.pc = "idle"
       /\ \E u \in Urls, sch \in Schemas, t \in FourthArgs,
             re \in { Undef, Str("high") }, pr \in { Undef, Str("p") },
             tp \in SamplingArgs, te \in SamplingArgs,
             envTimeout \in EnvTimeouts :
               ScraperScrape(u, sch, t, re, pr, tp, te, envTimeout)
    \/ /\ pc = "idle"
       /\ scrape.pc = "idle"
       /\ \E u \in Urls, sch \in Schemas, cfg \in ScrapeConfigs,
             t \in FourthArgs, envTimeout \in EnvTimeouts :
               BitBuffetScrape(u, sch, cfg, t, envTimeout)
    \/ /\ scrape.pc = "awaiting"
       /\ \E r \in CallerResponses : ScrapeRespond(r)
    \/ ScrapeSettled

SpecEntryPoints == Init /\ [][NextEntryPoints]_vars

(***************************************************************************)
(* Properties of extract                                                   *)
(***************************************************************************)
\* the synchronous part of the call has run
Started == pc # "idle"

\* the caller's configuration: the second argument when it carries the mode
\* indicator, else the third argument when it is an object
ConfigShape == HasFormatKey(schemaOrConfig)

BothSamplingSet ==
    /\ config.t = "object"
    /\ config.temperature.t # "undefined"
    /\ config.top_p.t # "undefined"

RejectedWith(msg) ==
    /\ pc = "done"
    /\ outcome = Threw(Error(msg))
    /\ posts = 0
    /\ payload = NoPayload

\* C1: a call whose resolved configuration sets both temperature and top_p
\* fails with the parameter-conflict error and issues no POST, whatever the
\* mode, the schema and the timeout arguments are.
C1_ConflictRejected ==
    (Started /\ BothSamplingSet) => RejectedWith(ConflictMessage)

\* C1 witness: a conflicting configuration in json mode without a schema,
\* where the schema-required rule would fire too
C1_Witness ==
    /\ pc = "done"
    /\ BothSamplingSet
    /\ format = Str("json")
    /\ schema = Undef
    /\ timeout # Undef
    /\ outcome = Threw(Error(ConflictMessage))

\* no schema was supplied: the second argument is absent, or is a
\* configuration object (with or without the mode indicator)
NoSchemaSupplied == schemaOrConfig.t \in {"undefined", "object"}

SchemaWithMarkdownConfig ==
    /\ schemaOrConfig.t = "schema"
    /\ HasFormatKey(configOrTimeout)
    /\ configOrTimeout.format = Str("markdown")

Supplied(k) == config.t = "object" /\ config[k].t # "undefined"

ModeUnspecified ==
    \/ configOrTimeout.t \in {"undefined", "number"}
    \/ configOrTimeout.t = "object" /\ ~configOrTimeout.hasFormat

\* C4: with a schema in second place and the mode unspecified (third argument
\* absent, numeric, or a configuration without the mode indicator) the
\* resolved mode is json, and the request posted (there is one unless the
\* configuration sets both temperature and top_p) carries the url, format
\* 'json', the serialised schema under json_schema, and each optional field
\* exactly when the caller supplied it.
C4_SchemaDefaultsToJson ==
    (Started /\ schemaOrConfig.t = "schema" /\ ModeUnspecified)
        => /\ format = Str("json")
           /\ IF BothSamplingSet THEN posts = 0
              ELSE /\ posts = 1
                   /\ payload.url = url
                   /\ payload.format = Str("json")
                   /\ "json_schema" \in DOMAIN payload
                   /\ payload.json_schema.t = "jsonschema"
                   /\ payload.json_schema.required = schemaOrConfig.shape
                   /\ \A i \in DOMAIN OptionalKeys :
                        OptionalKeys[i] \in DOMAIN payload
                            <=> Supplied(OptionalKeys[i])
                   /\ DOMAIN payload \subseteq
                        {"url", "format", "json_schema"}
                        \cup { OptionalKeys[i] : i \in DOMAIN OptionalKeys }

\* C4 witness: extract(url, schema, {}) posts exactly url, format, json_schema
C4_Witness ==
    /\ posts = 1
    /\ schemaOrConfig.t = "schema"
    /\ configOrTimeout = EmptyConfig
    /\ DOMAIN payload = {"url", "format", "json_schema"}

\* C5 as stated: a second argument carrying the mode indicator key is the
\* configuration, no schema is recorded, and the resolved mode is the
\* indicator's value, or json when the indicator is undefined.
C5_Claim ==
    (Started /\ ConfigShape)
        => /\ config = schemaOrConfig
           /\ schema = Undef
           /\ format = IF schemaOrConfig.format.t = "undefined"
                       THEN Str("json")
                       ELSE schemaOrConfig.format

\* C6: the timeout option of the POST is the third argument when it is a
\* number (in both call shapes, a fourth argument notwithstanding), else the
\* fourth argument when supplied, else the default timeout.
C6_TimeoutResolution ==
    posts = 1
        => /\ DOMAIN postOpts = {"timeout"}
           /\ postOpts.timeout =
                IF configOrTimeout.t = "number" THEN configOrTimeout
                ELSE IF timeout.t # "undefined" THEN timeout
                ELSE Num(DEFAULT_TIMEOUT)

\* C6 witness: configuration in second place, numeric third argument and a
\* different fourth argument
C6_Witness ==
    /\ posts = 1
    /\ ConfigShape
    /\ configOrTimeout.t = "number"
    /\ timeout.t = "number"
    /\ timeout # configOrTimeout
    /\ postOpts.timeout = configOrTimeout

\* C7 as stated: a call that supplies no timeout is sent with a timeout of
\* 30000 milliseconds.
C7_Claim ==
    (posts = 1 /\ configOrTimeout.t # "number" /\ timeout.t = "undefined")
        => postOpts.timeout = Num(30000)

\* C8 as stated: each optional field is in the payload exactly when the
\* caller supplied a value for it, unchanged, and no field of the payload
\* holds null or undefined.
C8_Claim ==
    posts = 1
        => /\ \A i \in DOMAIN OptionalKeys :
                LET k == OptionalKeys[i]
                IN /\ k \in DOMAIN payload
                        <=> (config.t = "object"
                             /\ config[k].t \notin {"undefined", "null"})
                   /\ k \in DOMAIN payload => payload[k] = config[k]
           /\ \A k \in DOMAIN payload :
                payload[k].t \notin {"undefined", "null"}

\* C9 as stated: every request either carries json_schema in json mode, or
\* is in markdown mode without json_schema, and exactly one of the two.
C9_Claim ==
    posts = 1
        => ( ("json_schema" \in DOMAIN payload /\ payload.format = Str("json"))
             # (payload.format = Str("markdown")
                /\ "json_schema" \notin DOMAIN payload) )

\* C10: when the POST fails at transport level the call fails with an Error
\* whose message is "API request failed: " followed by the cause's message,
\* and the call has issued exactly one POST.
C10_TransportError ==
    (pc = "done" /\ response.t = "failure")
        => /\ outcome = Threw(Error(<< "API request failed: " >>
                                    \o response.cause.message))
           /\ posts = 1

\* C10 witness: a markdown call ended by a connection failure
C10_Witness ==
    /\ pc = "done"
    /\ response = Failure(AxiosError(<< "Connection failed" >>))
    /\ format = Str("markdown")
    /\ outcome.kind = "threw"

(***************************************************************************)
(* Properties of the response interpretation                               *)
(***************************************************************************)
\* the call is over and the transport answered with a 2xx envelope
EnvelopeReceived ==
    /\ pc = "done"
    /\ response.t = "reply"
    /\ response.data.t = "envelope"

SuccessIs(b) == EnvelopeReceived /\ response.data.success = Bool(b)

\* C11 as stated: with success = false the call fails with the message
\* "API returned error: " followed by envelope.error, or by "Unknown error"
\* when envelope.error is absent, in both modes and whatever data holds.
C11_Original ==
    SuccessIs(FALSE)
        => outcome = Threw(Error(<< "API returned error: ",
                                    IF response.data.error.t = "undefined"
                                    THEN "Unknown error"
                                    ELSE response.data.error.s >>))

\* C11 amended: with success = false the call fails with the message
\* "API returned error: " followed by envelope.error, or by "Unknown error"
\* when envelope.error is absent or the empty string, in both modes and
\* whatever data holds; nothing is validated and nothing is returned.
C11_ApiError ==
    SuccessIs(FALSE)
        => outcome = Threw(Error(<< "API returned error: ",
                                    IF \/ response.data.error.t = "undefined"
                                       \/ response.data.error = Str("")
                                    THEN "Unknown error"
                                    ELSE response.data.error.s >>))

\* C11 witness: a markdown call answered success = false with data present
C11_Witness ==
    /\ SuccessIs(FALSE)
    /\ format = Str("markdown")
    /\ response.data.data = Str("# Article Title")
    /\ response.data.error = Str("Failed to extract the provided URL")
    /\ outcome.kind = "threw"

\* data conforms to the Zod schema sch
Conforms(sch, data) == data.t = "record" /\ sch.shape \subseteq data.keys

\* C12: with success = true, in json mode with a Zod schema, data that
\* violates the schema makes the call fail with "Validation failed: ...";
\* conforming data makes it return the value the schema produces (the data
\* reduced to the schema's fields), not the raw envelope.
C12_JsonValidated ==
    (SuccessIs(TRUE) /\ format = Str("json") /\ schema.t = "schema")
        => IF Conforms(schema, response.data.data)
           THEN /\ outcome = Returned(Obj(response.data.data.keys
                                          \cap schema.shape))
                /\ outcome.value # response.data
           ELSE /\ outcome.kind = "threw"
                /\ outcome.error.t = "Error"
                /\ Head(outcome.error.message) = "Validation failed: "

\* C12 witness: conforming data with an extra key comes back without it
C12_Witness ==
    /\ SuccessIs(TRUE)
    /\ format = Str("json")
    /\ response.data.data = Obj({"title", "author", "extra"})
    /\ outcome = Returned(Obj({"title", "author"}))

\* C13: with success = true in markdown mode the call returns envelope.data
\* unchanged, whatever it is: nothing is validated.
C13_MarkdownAsIs ==
    (SuccessIs(TRUE) /\ format = Str("markdown"))
        => outcome = Returned(response.data.data)

\* C13 witness: an object that no schema of the model accepts is returned
C13_Witness ==
    /\ SuccessIs(TRUE)
    /\ format = Str("markdown")
    /\ response.data.data = Obj({})
    /\ outcome = Returned(Obj({}))

\* C14 as stated: a markdown call that completes successfully returns a
\* string, for every envelope with success = true.
C14_Claim ==
    (SuccessIs(TRUE) /\ format = Str("markdown") /\ outcome.kind = "returned")
        => outcome.value.t = "string"

(***************************************************************************)
(* Properties of the constructor                                           *)
(***************************************************************************)
\* the key is absent, empty or made of white space only
BlankKey(key) ==
    \/ key.t = "undefined"
    \/ key.t = "chars"
       /\ \A i \in 1 .. Len(key.c) : key.c[i] \in {" ", "\t", "\n"}

\* C15: constructing with an absent, empty or white-space-only API key fails
\* with the "API key is required..." error and creates no HTTP client;
\* constructing with any other key succeeds.
C15_ApiKeyValidated ==
    apiKey # NoKey
        => IF BlankKey(apiKey)
           THEN /\ ctorError = Error(ApiKeyMessage)
                /\ client = NoClient
                /\ creates = 0
           ELSE /\ ctorError = Undef
                /\ client.t = "client"
                /\ creates = 1

\* C15 witness: a key of a blank and a tab has been refused
C15_Witness ==
    /\ apiKey = Chars(<< " ", "\t" >>)
    /\ ctorError = Error(ApiKeyMessage)
    /\ client = NoClient

\* C16: a constructed client has created its HTTP client exactly once, with
\* the base URL "https://api.bitbuffet.dev" + "/" + "v1" and exactly the
\* headers Authorization: "Bearer " + apiKey and Content-Type:
\* application/json; every request of extract is a POST to "/extract".
C16_HttpClient ==
    /\ client # NoClient
         => /\ creates = 1
            /\ client.baseURL = << "https://api.bitbuffet.dev", "/", "v1" >>
            /\ client.headers =
                 [Authorization |-> << "Bearer " >> \o apiKey.c,
                  ContentType   |-> "application/json"]
    /\ client = NoClient => creates = 0
    /\ posts = 1 => (client # NoClient /\ path = "/extract")
    /\ posts = 0 => path = Undef

\* C16 witness: a request is in flight on a client built from the key " k"
C16_Witness ==
    /\ pc = "awaiting"
    /\ posts = 1
    /\ path = "/extract"
    /\ apiKey = Chars(<< " ", "k" >>)
    /\ client.headers.Authorization = << "Bearer ", " ", "k" >>

(***************************************************************************)
(* Properties of the call as a whole                                       *)
(***************************************************************************)
\* none of the three validation rules fires on the resolved arguments
RulesPass ==
    /\ ~BothSamplingSet
    /\ ~(format = Str("json") /\ ~Truthy(schema))
    /\ ~(format = Str("markdown") /\ Truthy(schema))

\* C17 as stated: a call issues at most one POST, exactly one when all three
\* validation rules pass and none when a rule fails, and no second POST
\* whatever the outcome of the first.
C17_Claim ==
    Started
        => /\ posts \in {0, 1}
           /\ RulesPass => posts = 1
           /\ ~RulesPass => posts = 0

\* C20: a call that is over has exactly one outcome, a returned value or a
\* thrown error, and a call that is not over has none; a value returned in
\* json mode conforms to the schema the caller supplied.
C20_OneOutcome ==
    /\ pc = "done"
         => \/ outcome.kind = "returned" /\ DOMAIN outcome = {"kind", "value"}
            \/ outcome.kind = "threw" /\ DOMAIN outcome = {"kind", "error"}
    /\ pc # "done" => outcome = NoOutcome
    /\ (pc = "done" /\ outcome.kind = "returned" /\ format = Str("json"))
         => /\ schemaOrConfig.t = "schema"
            /\ schema = schemaOrConfig
            /\ Conforms(schemaOrConfig, outcome.value)

\* C20 witness: a json call has returned a conforming value
C20_Witness ==
    /\ pc = "done"
    /\ format = Str("json")
    /\ outcome.kind = "returned"
    /\ outcome.value.keys = {"title", "author"}
    /\ configOrTimeout.t = "number"

(***************************************************************************)
(* Several calls on one client                                             *)
(***************************************************************************)
\* caller i has made its call
Begun(i) == calls[i].pc # "idle"

\* callers i and j passed the same four arguments
SameArguments(i, j) ==
    /\ calls[i].url = calls[j].url
    /\ calls[i].schemaOrConfig = calls[j].schemaOrConfig
    /\ calls[i].configOrTimeout = calls[j].configOrTimeout
    /\ calls[i].timeout = calls[j].timeout

\* the calls of i and j sent the same thing, or both sent nothing
SameRequest(i, j) ==
    /\ calls[i].posts = calls[j].posts
    /\ calls[i].path = calls[j].path
    /\ calls[i].payload = calls[j].payload
    /\ calls[i].postOpts = calls[j].postOpts
    /\ calls[i].actualTimeout = calls[j].actualTimeout

\* both calls are over and the transport answered them alike
SameAnswer(i, j) ==
    /\ calls[i].pc = "done"
    /\ calls[j].pc = "done"
    /\ calls[i].response = calls[j].response

\* what a call sends is fixed by its own arguments, and how it ends by its own
\* arguments and its own response, whatever the other calls are doing
CallsIsolated ==
    \A i, j \in Callers :
        (Begun(i) /\ Begun(j) /\ SameArguments(i, j))
            => /\ SameRequest(i, j)
               /\ SameAnswer(i, j) => calls[i].outcome = calls[j].outcome

Deterministic(i, j) ==
    (calls[i].posts = 1 /\ calls[j].posts = 1
        /\ calls[i].payload = calls[j].payload
        /\ calls[i].postOpts = calls[j].postOpts)
            => calls[i].response = calls[j].response

C21_Claim ==
    posts = 1 => postOpts.timeout.n > 0

\* the issues the validator reports for the data of the response
ReportedIssues == ZodIssues(schema, response.data.data)

\* C22: when the data of a successful json response violates the schema, the
\* error of the call is the validation error whose message is
\* "Validation failed: " followed by every issue the validator reports, not
\* the first one only.
C22_AllViolations ==
    ( /\ SuccessIs(TRUE)
      /\ format = Str("json")
      /\ schema.t = "schema"
      /\ ~Conforms(schema, response.data.data) )
        => /\ outcome.kind = "threw"
           /\ outcome.error.t = "Error"
           /\ Head(outcome.error.message) = "Validation failed: "
           /\ { outcome.error.message[i] :
                    i \in 2 .. Len(outcome.error.message) } = ReportedIssues
           /\ Len(outcome.error.message) = 1 + Cardinality(ReportedIssues)

\* C22 witness: data lacking both fields of the schema, both are reported
C22_Witness ==
    /\ SuccessIs(TRUE)
    /\ format = Str("json")
    /\ schema = ArticleSchema
    /\ response.data.data = Obj({})
    /\ outcome.kind = "threw"
    /\ Len(outcome.error.message) = 3
    /\ Cardinality(ReportedIssues) = 2

\* C23 as stated: a call with a schema in second place and a markdown
\* configuration in third place is a markdown extraction: the request is
\* posted without the schema and the call returns the data of a successful
\* response.
C23_Claim ==
    (Started /\ SchemaWithMarkdownConfig /\ ~BothSamplingSet)
        => /\ posts = 1
           /\ payload.format = Str("markdown")
           /\ "json_schema" \notin DOMAIN payload
           /\ SuccessIs(TRUE) => outcome = Returned(response.data.data)

\* C24 as stated: the mode of every posted payload is 'json' or 'markdown'; a
\* configuration whose mode indicator holds another value causes no POST.
C24_Claim ==
    posts = 1 => payload.format \in { Str("json"), Str("markdown") }

\* the labels the catch block and the response interpretation put in front
\* of the errors they raise
ErrorLabels ==
    { "API request failed: ", "Validation failed: ", "API returned error: " }

Classified(e) ==
    /\ e.t = "Error"
    /\ \/ e.message \in { ConflictMessage, SchemaRequiredMessage,
                          SchemaForbiddenMessage }
       \/ Head(e.message) \in ErrorLabels

\* C27 as stated: for every argument list and every body of a 2xx reply
\* (null, a non-object, an object lacking success or data) the call returns a
\* value or fails with a classified error, never with another runtime error.
C27_Claim ==
    pc = "done"
        => \/ outcome.kind = "returned"
           \/ outcome.kind = "threw" /\ Classified(outcome.error)

\* C28 as stated: a value is returned only when success is true; an envelope
\* whose success is missing, null or anything else but true makes the call
\* fail with the API error, with "Unknown error" when error is absent or
\* empty.
C28_Claim ==
    (pc = "done" /\ EnvelopeReceived /\ response.data.success # Bool(TRUE))
        => outcome = Threw(Error(<< "API returned error: ",
                                    IF Truthy(response.data.error)
                                    THEN response.data.error.s
                                    ELSE "Unknown error" >>))

(***************************************************************************)
(* Frame of extract                                                        *)
(***************************************************************************)
\* C29: a call, whether it posts or fails, leaves the objects passed as
\* second and third argument as they were, up to the await and after it, and
\* the object it posts is one the call created, neither of the two.
C29_ArgumentsUntouched ==
    Started
        => /\ objects.schemaOrConfig = schemaOrConfig
           /\ objects.configOrTimeout = configOrTimeout
           /\ posts = 1 => objects.payload = "payload"
           /\ objects.payload \notin {"schemaOrConfig", "configOrTimeout"}

\* C29 witness: a call whose configuration is the caller's third argument
\* has copied two of its fields into the posted payload and is over
C29_Witness ==
    /\ pc = "done"
    /\ posts = 1
    /\ schemaOrConfig = ArticleSchema
    /\ configOrTimeout.t = "object"
    /\ config = configOrTimeout
    /\ {"prompt", "temperature"} \subseteq DOMAIN payload
    /\ payload.prompt = Str("p")
    /\ payload.temperature = Num(1)
    /\ objects.configOrTimeout = configOrTimeout
    /\ "url" \notin DOMAIN objects.configOrTimeout
    /\ objects.payload = "payload"

(***************************************************************************)
(* Properties of the entry points of scraper.ts                            *)
(***************************************************************************)
\* body carries both sampling options
BothSamplingIn(body) == {"temperature", "top_p"} \subseteq DOMAIN body

\* C25 as stated: no payload posted by BitBuffet.extract, BitBuffet.scrape or
\* ScraperClient.scrape carries both temperature and top_p.
C25_Claim ==
    /\ posts = 1 => ~BothSamplingIn(payload)
    /\ scrape.posts = 1 => ~BothSamplingIn(scrape.payload)

\* the text the constructor of ScraperClient was given, default included
GivenBaseUrl == scraperClient.given

\* C30: the base URL a ScraperClient hands to its HTTP client is the text it
\* was given without the one slash at its end, and the text itself when it
\* does not end with a slash; this.baseUrl holds the same.
C30_TrailingSlash ==
    scraperClient # NoScraperClient
        => LET g == GivenBaseUrl
               n == Len(g)
           IN /\ scraperClient.baseUrl = scraperClient.baseURL
              /\ IF n > 0 /\ g[n] = "/"
                 THEN /\ Len(scraperClient.baseURL) = n - 1
                      /\ \A i \in 1 .. n - 1 : scraperClient.baseURL[i] = g[i]
                 ELSE scraperClient.baseURL = g

\* C30 witness: a client made from "a/" posts on base URL "a"
C30_Witness ==
    /\ scraperClient # NoScraperClient
    /\ GivenBaseUrl = << "a", "/" >>
    /\ scraperClient.baseURL = << "a" >>
    /\ scrape.entry = "ScraperClient.scrape"
    /\ scrape.posts = 1

====
